---- MODULE Spec2Model ----
(***************************************************************************)
(* Model of Mental_Health_Recoder.ino: the quadrature decoder interrupt    *)
(* handler updateEncoder(), the debounced button reader isButtonPressed(), *)
(* and the main loop() with its selection state machine, render change     *)
(* detection, submission and confirmation dwell.                           *)
(*                                                                         *)
(* The main loop is cut into steps (pc) at the points where the interrupt  *)
(* handler can preempt it and where the tick counter millis() can advance. *)
(* Times are in milliseconds of millis(); the model stays far below 2^31   *)
(* ms, so the unsigned 32-bit subtraction of the code is plain             *)
(* subtraction here.  encoderPos is a 32-bit int in the code and is kept   *)
(* within -MaxPos..MaxPos by the environment, so it never overflows.       *)
(***************************************************************************)
EXTENDS Integers, Sequences, FiniteSets, TLC

VARIABLES
    pc,                   \* position of the main loop
    currentState,         \* DeviceState currentState
    selectedNameIndex,    \* int selectedNameIndex
    selectedClassIndex,   \* int selectedClassIndex
    selectedMoodIndex,    \* int selectedMoodIndex
    encoderPos,           \* volatile int encoderPos
    lastEncoded,          \* volatile int lastEncoded
    pos,                  \* loop()'s local: the value read from encoderPos
    interruptsOn,         \* FALSE between noInterrupts() and interrupts()
    pins,                 \* level of the two encoder lines, (A << 1) | B
    irq,                  \* a CHANGE interrupt is pending
    button,               \* level of BUTTON_PIN: LOW (pressed) or HIGH
    now,                  \* millis()
    lastButtonPressTime,  \* unsigned long lastButtonPressTime
    pressed,              \* the value isButtonPressed() returned
    delayStart,           \* start of the delay(200) in progress
    confirmStart,         \* loop()'s local confirmStart
    prevState,            \* DeviceState prevState
    prevNameIndex,        \* int prevNameIndex
    prevClassIndex,       \* int prevClassIndex
    prevMoodIndex,        \* int prevMoodIndex
    lcd,                  \* what the LCD shows: <<screen, label>>
    oled,                 \* what the OLED shows: <<screen, item>>
    message,              \* loop()'s local message, <<>> outside its scope
    sinkCalls,            \* calls of sendTelegramMessage in this submission
    sinkOutcome,          \* outcome of the last sendTelegramMessage
    undrained,            \* history: steps decoded minus values drained
    validSeen,            \* history: a valid transition was decoded
    quiet,                \* history: reset done, nothing decoded since
    pressCount,           \* history: presses accepted since the last reset
    dwellPress,           \* history: a press made during submission and dwell
    tickChanged,          \* history: this iteration changed the state or its index
    oledDraws,            \* history: calls of updateOLED() in this iteration
    moodMessagesLen       \* number of entries of moodMessages as compiled

vars == <<pc, currentState, selectedNameIndex, selectedClassIndex,
          selectedMoodIndex, encoderPos, lastEncoded, pos, interruptsOn,
          pins, irq, button, now, lastButtonPressTime, pressed, delayStart,
          confirmStart, prevState, prevNameIndex, prevClassIndex,
          prevMoodIndex, lcd, oled, message, sinkCalls, sinkOutcome, undrained,
          validSeen, quiet, pressCount, dwellPress, tickChanged, oledDraws,
          moodMessagesLen>>

----------------------------------------------------------------------------
\* Bounds of the model.

\* Largest magnitude the environment lets encoderPos reach between drains.
MaxPos == 4
\* millis() when loop() is first entered: setup() has spent 6900 ms in its
\* delays, with the network connected at the first look.
BootMs == 7000
\* Last instant of millis() the coarse clock reaches.
MaxNow == 22000
\* Last instant of millis() the fine clock reaches.
MaxFineNow == 11000
\* Passes of the wait loop of setupWiFi() that are followed.
MaxWifiWaits == 1
\* Passes of the dwell loop, each a call of updateOLED(), that are followed
\* until the count of calls of one iteration reaches this value.
MaxDraws == 3

----------------------------------------------------------------------------
\* Program constants.

STATE_NAME_SELECTION == "STATE_NAME_SELECTION"
STATE_CLASS_SELECTION == "STATE_CLASS_SELECTION"
STATE_MOOD_SELECTION == "STATE_MOOD_SELECTION"
STATE_SUBMISSION == "STATE_SUBMISSION"
STATE_CONFIRMATION == "STATE_CONFIRMATION"
\* (DeviceState)-1, the value no state compares equal to.
STATE_NONE == "STATE_NONE"

DeviceState == {STATE_NAME_SELECTION, STATE_CLASS_SELECTION,
                STATE_MOOD_SELECTION, STATE_SUBMISSION, STATE_CONFIRMATION}

SelectingStates == {STATE_NAME_SELECTION, STATE_CLASS_SELECTION,
                    STATE_MOOD_SELECTION}

numNames == 4
numClasses == 3
numMoods == 5
\* sizeof(moodMessages) / sizeof(moodMessages[0])
numMoodMessages == 5

LOW == 0
HIGH == 1

DebounceMs == 200
DelayMs == 200
DwellMs == 3000

----------------------------------------------------------------------------
\* Pure functions.

\* The C++ operator % on int: the remainder takes the sign of the dividend.
CRem(a, n) == IF a >= 0 THEN a % n ELSE -((-a) % n)

\* The index update stopping at the ends of the list instead of wrapping.
WrapIndexClamped(index, d, n) ==
    IF index + d >= n THEN n - 1
    ELSE IF index + d < 0 THEN 0
    ELSE index + d

\* (index + pos + n) % n, lines 493, 496, 499.
WrapIndex(index, d, n) == CRem(index + d + n, n)

\* The 4-bit transition code, line 270.
TransitionCode(last, encoded) == last * 4 + encoded

\* EncoderStep with the code 0b0100 mistyped as 0b0101.
EncoderStepMistyped(sum) ==
    IF sum \in {13, 5, 2, 11} THEN 1
    ELSE IF sum \in {14, 7, 1, 8} THEN -1
    ELSE 0

\* The change of encoderPos for a transition code, lines 271-274.
\* 0b1101 = 13, 0b0100 = 4, 0b0010 = 2, 0b1011 = 11;
\* 0b1110 = 14, 0b0111 = 7, 0b0001 = 1, 0b1000 = 8.
EncoderStep(sum) ==
    IF sum \in {13, 4, 2, 11} THEN 1
    ELSE IF sum \in {14, 7, 1, 8} THEN -1
    ELSE 0

\* isButtonPressed() with the debounce window of 200 written as 2000.
IsButtonPressedLongWindow(level, currentMillis, last) ==
    level = LOW /\ currentMillis - last > 2000

\* isButtonPressed() with the debounce window of 200 written as 20.
IsButtonPressedShortWindow(level, currentMillis, last) ==
    level = LOW /\ currentMillis - last > 20

\* isButtonPressed() without the test of the pin level.
IsButtonPressedAnyLevel(level, currentMillis, last) ==
    currentMillis - last > DebounceMs

\* isButtonPressed(): its return value for a pin level and a tick count.
IsButtonPressed(level, currentMillis, last) ==
    level = LOW /\ currentMillis - last > DebounceMs

\* The switch of lines 507-519 with the first case falling through.
NextStateOnPressFallThrough(s) ==
    CASE s = STATE_NAME_SELECTION -> STATE_MOOD_SELECTION
      [] s = STATE_CLASS_SELECTION -> STATE_MOOD_SELECTION
      [] s = STATE_MOOD_SELECTION -> STATE_SUBMISSION
      [] OTHER -> s

\* The state an accepted press leads to, lines 507-519.
NextStateOnPress(s) ==
    CASE s = STATE_NAME_SELECTION -> STATE_CLASS_SELECTION
      [] s = STATE_CLASS_SELECTION -> STATE_MOOD_SELECTION
      [] s = STATE_MOOD_SELECTION -> STATE_SUBMISSION
      [] OTHER -> s

\* delay(200) returns once 200 ms have passed.
DelayDone(t, start) == t - start >= DelayMs

\* The dwell loop's condition with the comparison turned round.
DwellDoneInverted(t, start) == t - start < DwellMs

\* The negation of the dwell loop's condition, line 549.
DwellDone(t, start) == ~(t - start < DwellMs)

\* Whether index i is an element of an array of n entries.
InRange(i, n) == i >= 0 /\ i < n

\* The option lists, lines 113-125 (C++ index i is element i + 1 here).
names == <<"Tan Jetyu", "Nur Qalisha", "Shum Jia Xiang", "Evelyn">>
classes == <<"Class 3", "Class 4", "Class 5">>
moods == <<"Happy", "Neutral", "Sad", "Angry", "Excited">>
moodMessages == <<"yes! Please stay happy !",
                  "awh Why ? Try to find something you like to do today !",
                  "Well, Its okay to be sad. Try to reach out to people you trust.",
                  "Okay! Cool cool! Take a deep breath!",
                  "Wow! I'm glad! Try to share your happiness with your friends!">>

\* What list[i] yields: the entry, or, with i outside the array, whatever the
\* memory next to the array holds.
LabelAt(list, i, n) == IF InRange(i, n) THEN list[i + 1] ELSE "<garbage>"

\* What a use of list[i] as a string can do: within the array it reads the
\* entry; outside it the behaviour is undefined, and the build either goes
\* on with garbage or faults.
ReadOutcomes(i, n) == IF InRange(i, n) THEN {"read"} ELSE {"garbage", "fault"}

\* displayMenu(): the two lines the LCD shows afterwards, lines 309-340.
DisplayMenu(s, ni, ci, mi) ==
    CASE s = STATE_NAME_SELECTION ->
            <<"Select Name:", LabelAt(names, ni, numNames)>>
      [] s = STATE_CLASS_SELECTION ->
            <<"Select Class:", LabelAt(classes, ci, numClasses)>>
      [] s = STATE_MOOD_SELECTION ->
            <<"Select Mood:", LabelAt(moods, mi, numMoods)>>
      [] s = STATE_CONFIRMATION -> <<"Submitted!", "Thank you!">>
      [] OTHER -> <<"", "">>

\* displayMenu() up to the read of its label: the LCD cleared and the header
\* of the state printed, lines 310-329.
MenuHeader(s) ==
    CASE s = STATE_NAME_SELECTION -> <<"Select Name:", "">>
      [] s = STATE_CLASS_SELECTION -> <<"Select Class:", "">>
      [] s = STATE_MOOD_SELECTION -> <<"Select Mood:", "">>
      [] OTHER -> <<"", "">>

\* The array reads of displayMenu().
DisplayMenuOutcomes(s, ni, ci, mi) ==
    CASE s = STATE_NAME_SELECTION -> ReadOutcomes(ni, numNames)
      [] s = STATE_CLASS_SELECTION -> ReadOutcomes(ci, numClasses)
      [] s = STATE_MOOD_SELECTION -> ReadOutcomes(mi, numMoods)
      [] OTHER -> {"read"}

\* The array moodMessages when its initializer has len entries: the first
\* entries are those of lines 120-124.
MoodMessagesOf(len) ==
    [i \in 1..len |->
        IF i <= Len(moodMessages) THEN moodMessages[i] ELSE "<added message>"]

\* displayEmotion(), lines 375-414: the frame it leaves on the OLED, named by
\* what is drawn inside the face circle.  Cases 0 (Happy) and 1 (Neutral)
\* draw the same frame, the mouth a straight line at y = 38; an index
\* outside 0..4 leaves the cleared display.
EmotionFrame(mi) ==
    CASE mi \in {0, 1} -> "eyes r2, mouth line y38"
      [] mi = 2 -> "eyes r2, mouth line y42"
      [] mi = 3 -> "eyes r2, brows, mouth line y40"
      [] mi = 4 -> "eyes r3, mouth circle"
      [] OTHER -> ""

\* updateOLED(): what the OLED shows afterwards, lines 346-369.
UpdateOLED(s, mi) ==
    CASE s \in {STATE_NAME_SELECTION, STATE_CLASS_SELECTION} ->
            <<"eyes", "">>
      [] s = STATE_MOOD_SELECTION -> <<"emotion", EmotionFrame(mi)>>
      [] s = STATE_CONFIRMATION ->
            <<"message", LabelAt(MoodMessagesOf(moodMessagesLen), mi,
                                 moodMessagesLen)>>
      [] OTHER -> <<"text", "Idle">>

\* The array read of updateOLED().
UpdateOLEDOutcomes(s, mi) ==
    IF s = STATE_CONFIRMATION THEN ReadOutcomes(mi, moodMessagesLen)
    ELSE {"read"}

\* The message with the Class and Mood lines in each other's place.
BuildMessageSwapped(ni, ci, mi) ==
    <<<<"Name", LabelAt(names, ni, numNames)>>,
      <<"Mood", LabelAt(moods, mi, numMoods)>>,
      <<"Class", LabelAt(classes, ci, numClasses)>>,
      <<"Date", "dd/mm/yyyy">>>>

\* The message of a submission, lines 538-541, as its four fields in order.
BuildMessage(ni, ci, mi) ==
    <<<<"Name", LabelAt(names, ni, numNames)>>,
      <<"Class", LabelAt(classes, ci, numClasses)>>,
      <<"Mood", LabelAt(moods, mi, numMoods)>>,
      <<"Date", "dd/mm/yyyy">>>>

\* The array reads of the message.
BuildMessageOutcomes(ni, ci, mi) ==
    IF InRange(ni, numNames) /\ InRange(ci, numClasses) /\ InRange(mi, numMoods)
    THEN {"read"} ELSE {"garbage", "fault"}

\* The outcomes of sendTelegramMessage(), lines 238-260: the connection is
\* refused, or the request is sent and the reply read or cut short; or the
\* call has not returned: it waits for the peer in client.connect(), in the
\* loop of lines 248-254 or in readString(), and against a peer that stays
\* connected and never sends the blank line that ends the headers the loop
\* never ends.
SinkOutcomes == {"sent", "connection_failed", "transport_error", "no_return"}

\* The outcomes with which sendTelegramMessage() returns.
SinkReturns == SinkOutcomes \ {"no_return"}

\* The render condition without its clause for the mood index.
NeedsRedrawNoMood(s, ni, ci, mi, ps, pn, pcl, pm) ==
    \/ s # ps
    \/ (s = STATE_NAME_SELECTION /\ ni # pn)
    \/ (s = STATE_CLASS_SELECTION /\ ci # pcl)

\* The render condition of loop(), lines 523-526.
NeedsRedraw(s, ni, ci, mi, ps, pn, pcl, pm) ==
    \/ s # ps
    \/ (s = STATE_NAME_SELECTION /\ ni # pn)
    \/ (s = STATE_CLASS_SELECTION /\ ci # pcl)
    \/ (s = STATE_MOOD_SELECTION /\ mi # pm)

----------------------------------------------------------------------------
\* The state when loop() is first entered: the globals' initializers and
\* setup(), which draws the name menu and the idle eyes, with the handler not
\* yet run: the encoder lines are at any level, for the knob may have been
\* turned before the handler was attached (ConfigSpec follows setup() step
\* by step, also with the knob turned after that).

Init ==
    /\ pc = "top"
    /\ currentState = STATE_NAME_SELECTION
    /\ selectedNameIndex = 0
    /\ selectedClassIndex = 0
    /\ selectedMoodIndex = 0
    /\ encoderPos = 0
    /\ lastEncoded = 0
    /\ pos = 0
    /\ interruptsOn = TRUE
    /\ pins \in 0..3
    /\ irq = FALSE
    /\ button = HIGH
    /\ now = BootMs
    /\ lastButtonPressTime = 0
    /\ pressed = FALSE
    /\ delayStart = 0
    /\ confirmStart = 0
    /\ prevState = STATE_NONE
    /\ prevNameIndex = -1
    /\ prevClassIndex = -1
    /\ prevMoodIndex = -1
    /\ lcd = DisplayMenu(STATE_NAME_SELECTION, 0, 0, 0)
    /\ oled = <<"eyes", "">>
    /\ message = <<>>
    /\ sinkCalls = 0
    /\ sinkOutcome = "none"
    /\ undrained = 0
    /\ validSeen = FALSE
    /\ quiet = FALSE
    /\ pressCount = 0
    /\ dwellPress = "none"
    /\ tickChanged = FALSE
    /\ oledDraws = 0
    /\ moodMessagesLen = numMoodMessages

\* loop() is first entered with the encoder lines at their pulled-up level.
RestInit == Init /\ pins = 3

----------------------------------------------------------------------------
\* Power-on and setup(), for a build whose moodMessages initializer has any
\* of the lengths MessageCounts; the array moods has numMoods entries.

MessageCounts == {numMoods - 1, numMoods, numMoods + 1}

\* The globals' initializers, lines 110-143, at power-on, before setup() has
\* run: millis() is 0 and both displays are blank.
ConfigInit ==
    /\ pc = "setup"
    /\ moodMessagesLen \in MessageCounts
    /\ currentState = STATE_NAME_SELECTION
    /\ selectedNameIndex = 0
    /\ selectedClassIndex = 0
    /\ selectedMoodIndex = 0
    /\ encoderPos = 0
    /\ lastEncoded = 0
    /\ pos = 0
    /\ interruptsOn = TRUE
    /\ pins = 3
    /\ irq = FALSE
    /\ button = HIGH
    /\ now = 0
    /\ lastButtonPressTime = 0
    /\ pressed = FALSE
    /\ delayStart = 0
    /\ confirmStart = 0
    /\ prevState = STATE_NONE
    /\ prevNameIndex = -1
    /\ prevClassIndex = -1
    /\ prevMoodIndex = -1
    /\ lcd = <<"", "">>
    /\ oled = <<"", "">>
    /\ message = <<>>
    /\ sinkCalls = 0
    /\ sinkOutcome = "none"
    /\ undrained = 0
    /\ validSeen = FALSE
    /\ quiet = FALSE
    /\ pressCount = 0
    /\ dwellPress = "none"
    /\ tickChanged = FALSE
    /\ oledDraws = 0

\* The positions of setup() at which it waits: "setup" before the displays
\* are started, "animN" in the N-th delay() of startupAnimation(), "wifi"
\* at the condition of the wait loop of setupWiFi(), "wifi_ok" in its
\* delay(2000).
AnimationPcs == <<"anim1", "anim2", "anim3", "anim4", "anim5", "anim6">>

SetupPcs == {"setup", "wifi", "wifi_ok"} \cup
            {AnimationPcs[i] : i \in 1..Len(AnimationPcs)}

\* startupAnimation(), lines 148-179: what the LCD shows during each of its
\* six delays, and how long each delay lasts.
AnimationFrames ==
    << <<"Welcome!", "">>, <<"Loading.", "">>, <<"Loading..", "">>,
       <<"Loading...", "">>, <<"Student Emotion", "Recorder">>,
       <<"By JET", "">> >>

AnimationDelays == <<1000, 300, 300, 300, 1500, 1500>>

\* The time startupAnimation() takes.
AnimationMs == 1000 + 300 + 300 + 300 + 1500 + 1500

\* setupWiFi(): the delay of one pass of its wait loop, line 197, and the
\* delay after the connection is shown, line 208.
WifiPollMs == 500
WifiShownMs == 2000

\* Whether updateEncoder() is attached to the encoder lines: from lines
\* 463-464 on, which the endless loop of line 444 never reaches.
Attached == pc \notin (SetupPcs \ {"wifi", "wifi_ok"}) \cup {"halted"}

\* The variables setup() leaves alone in each of its steps.
SetupFrame ==
    UNCHANGED <<currentState, selectedNameIndex, selectedClassIndex,
                selectedMoodIndex, encoderPos, lastEncoded, pos,
                interruptsOn, pins, irq, button, lastButtonPressTime,
                pressed, delayStart, confirmStart, message, sinkCalls,
                sinkOutcome, undrained, validSeen, quiet, pressCount,
                dwellPress, tickChanged, oledDraws, moodMessagesLen>>

\* Lines 433-452: the displays are started.  After a failed display.begin()
\* setup() stays in the endless loop of line 444; otherwise the OLED is
\* cleared and startupAnimation() shows its first frame.
SetupBegin ==
    /\ pc = "setup"
    /\ \E oledFound \in BOOLEAN :
         IF oledFound
         THEN /\ oled' = <<"", "">>
              /\ lcd' = AnimationFrames[1]
              /\ pc' = AnimationPcs[1]
         ELSE /\ pc' = "halted"
              /\ UNCHANGED <<lcd, oled>>
    /\ UNCHANGED <<now, prevState, prevNameIndex, prevClassIndex,
                   prevMoodIndex>>
    /\ SetupFrame

\* The i-th delay of startupAnimation() ends: the next frame is shown, or,
\* after the last, the LCD is cleared, updateEncoder() is attached, lines
\* 458-464, and setupWiFi() shows that it is connecting, lines 185-194.
StartupAnimation(i) ==
    /\ pc = AnimationPcs[i]
    /\ now' = now + AnimationDelays[i]
    /\ IF i < Len(AnimationPcs)
       THEN /\ lcd' = AnimationFrames[i + 1]
            /\ pc' = AnimationPcs[i + 1]
            /\ oled' = oled
       ELSE /\ lcd' = <<"", "">>
            /\ oled' = <<"text", "Connecting to WiFi...">>
            /\ pc' = "wifi"
    /\ UNCHANGED <<prevState, prevNameIndex, prevClassIndex, prevMoodIndex>>
    /\ SetupFrame

\* Lines 196-199: the network is not connected yet and setupWiFi() waits
\* 500 ms before it looks again; nothing ends this loop but a connection.
\* MaxWifiWaits passes are followed.
WifiWait ==
    /\ pc = "wifi"
    /\ now + WifiPollMs <= AnimationMs + MaxWifiWaits * WifiPollMs
    /\ now' = now + WifiPollMs
    /\ UNCHANGED <<pc, lcd, oled, prevState, prevNameIndex, prevClassIndex,
                   prevMoodIndex>>
    /\ SetupFrame

\* Lines 200-208: the network is connected, the OLED says so and shows the
\* address, and setupWiFi() waits 2000 ms.
WifiConnected ==
    /\ pc = "wifi"
    /\ oled' = <<"text", "WiFi Connected! IP: <address>">>
    /\ pc' = "wifi_ok"
    /\ UNCHANGED <<now, lcd, prevState, prevNameIndex, prevClassIndex,
                   prevMoodIndex>>
    /\ SetupFrame

\* Lines 208-480: the delay of setupWiFi() ends, the render snapshot is
\* reset, the menu and the idle eyes are drawn, and loop() is entered.
\* setup() makes no use of the length of moodMessages.
SetupEnd ==
    /\ pc = "wifi_ok"
    /\ now' = now + WifiShownMs
    /\ prevState' = STATE_NONE
    /\ prevNameIndex' = -1
    /\ prevClassIndex' = -1
    /\ prevMoodIndex' = -1
    /\ lcd' = DisplayMenu(currentState, selectedNameIndex,
                  selectedClassIndex, selectedMoodIndex)
    /\ oled' = <<"eyes", "">>
    /\ pc' = "top"
    /\ SetupFrame

\* setup(), lines 432-480, step by step.
Setup ==
    \/ SetupBegin
    \/ \E i \in 1..Len(AnimationPcs) : StartupAnimation(i)
    \/ WifiWait
    \/ WifiConnected
    \/ SetupEnd

----------------------------------------------------------------------------
\* The interrupt handler and the encoder lines.

\* Whether an interrupt is served: once the handler is attached, not between
\* noInterrupts() and interrupts(), and not once the device has faulted.
InterruptsServed == Attached /\ interruptsOn /\ pc # "fault"

\* updateEncoder(), lines 266-276, reading the levels `encoded` from the two
\* lines: it classifies the transition from the stored sample, counts it and
\* stores the new sample.
UpdateEncoder(encoded) ==
    LET sum == TransitionCode(lastEncoded, encoded)
    IN /\ encoderPos' = encoderPos + EncoderStep(sum)
       /\ lastEncoded' = encoded
       /\ irq' = FALSE
       /\ undrained' = undrained + EncoderStep(sum)
       /\ validSeen' = (validSeen \/ EncoderStep(sum) # 0)
       /\ quiet' = (quiet /\ EncoderStep(sum) = 0)

\* The encoder lines change to the levels s, which raises a CHANGE
\* interrupt: with the interrupts enabled the handler runs at once and reads
\* the new levels; with the interrupts masked the interrupt stays pending;
\* before the handler is attached there is no interrupt.
\* The environment stops turning the knob while encoderPos is at MaxPos, and
\* at the last instant the clock reaches.
SignalEdge(s) ==
    /\ s # pins
    /\ encoderPos < MaxPos /\ encoderPos > -MaxPos
    /\ now + DwellMs <= MaxNow
    /\ pins' = s
    /\ IF InterruptsServed
       THEN UpdateEncoder(s)
       ELSE /\ irq' = Attached
            /\ UNCHANGED <<encoderPos, lastEncoded, undrained, validSeen,
                           quiet>>
    /\ UNCHANGED <<pc, currentState, selectedNameIndex, selectedClassIndex,
                   selectedMoodIndex, pos, interruptsOn, button, now,
                   lastButtonPressTime, pressed, delayStart, confirmStart,
                   prevState, prevNameIndex, prevClassIndex, prevMoodIndex,
                   lcd, oled, message, sinkCalls, sinkOutcome, pressCount, dwellPress,
                   tickChanged, oledDraws, moodMessagesLen>>

\* The interrupt left pending while the interrupts were masked is served:
\* the handler reads the levels the lines have by now.
PendingInterrupt ==
    /\ irq
    /\ InterruptsServed
    /\ UpdateEncoder(pins)
    /\ UNCHANGED <<pc, currentState, selectedNameIndex, selectedClassIndex,
                   selectedMoodIndex, pos, interruptsOn, pins, button, now,
                   lastButtonPressTime, pressed, delayStart, confirmStart,
                   prevState, prevNameIndex, prevClassIndex, prevMoodIndex,
                   lcd, oled, message, sinkCalls, sinkOutcome, pressCount, dwellPress,
                   tickChanged, oledDraws, moodMessagesLen>>

----------------------------------------------------------------------------
\* The button and the tick counter.

\* The button is pressed or released.
ButtonChange ==
    /\ button' = IF button = LOW THEN HIGH ELSE LOW
    /\ dwellPress' =
          IF pc \in {"send", "sending", "confirm", "dwell"}
          THEN IF button = HIGH THEN "down"
               ELSE IF dwellPress = "down" THEN "done" ELSE dwellPress
          ELSE dwellPress
    /\ UNCHANGED <<pc, currentState, selectedNameIndex, selectedClassIndex,
                   selectedMoodIndex, encoderPos, lastEncoded, pos,
                   interruptsOn, pins, irq, now, lastButtonPressTime,
                   pressed, delayStart, confirmStart, prevState,
                   prevNameIndex, prevClassIndex, prevMoodIndex, lcd, oled,
                   message, sinkCalls, sinkOutcome, undrained, validSeen,
                   quiet, pressCount, tickChanged, oledDraws,
                   moodMessagesLen>>

TimeFrame ==
    UNCHANGED <<pc, currentState, selectedNameIndex, selectedClassIndex,
                selectedMoodIndex, encoderPos, lastEncoded, pos,
                interruptsOn, pins, irq, button, lastButtonPressTime,
                pressed, delayStart, confirmStart, prevState, prevNameIndex,
                prevClassIndex, prevMoodIndex, lcd, oled, message, sinkCalls,
                sinkOutcome, undrained, validSeen, quiet, pressCount,
                dwellPress, tickChanged, oledDraws, moodMessagesLen>>

\* loop() is waiting: for millis() in delay(200) or in the dwell loop, or
\* for the peer in sendTelegramMessage().
Waiting ==
    \/ pc = "delay" /\ ~DelayDone(now, delayStart)
    \/ pc = "dwell" /\ ~DwellDone(now, confirmStart)
    \/ pc = "sending"

\* millis() advances by a whole dwell period while loop() waits for it; the
\* rest of loop() takes no time on this clock.
TickCoarse ==
    /\ now + DwellMs <= MaxNow
    /\ Waiting
    /\ now' = now + DwellMs
    /\ TimeFrame

\* The instants at which the fine clock is observed: each multiple of the
\* debounce window and the millisecond after it, so that elapsed times of
\* one less than, exactly, and one more than 200 ms and 3000 ms occur.
NextInstant(t) ==
    IF t % DebounceMs = 0 THEN t + 1 ELSE t - (t % DebounceMs) + DebounceMs

\* millis() advances to the next observed instant.
TickFine ==
    /\ NextInstant(now) <= MaxFineNow
    /\ now' = NextInstant(now)
    /\ TimeFrame

----------------------------------------------------------------------------
\* The main loop, one action per step.

selVars == <<selectedNameIndex, selectedClassIndex, selectedMoodIndex>>
encVars == <<lastEncoded, pins, irq>>
snapVars == <<prevState, prevNameIndex, prevClassIndex, prevMoodIndex>>
sinkVars == <<message, sinkCalls, sinkOutcome>>
timeVars == <<now, lastButtonPressTime, pressed, delayStart, confirmStart>>

\* noInterrupts() left out: the interrupts stay enabled during the drain.
NoInterruptsOmitted == TRUE

\* noInterrupts(), line 485: the value of the interrupt enable afterwards.
NoInterrupts == FALSE

\* Lines 485-486: mask the interrupts and read encoderPos.
DrainRead ==
    /\ pc = "top"
    /\ interruptsOn' = NoInterrupts
    /\ pos' = encoderPos
    /\ tickChanged' = FALSE
    /\ oledDraws' = 0
    /\ pc' = "clear"
    /\ UNCHANGED <<currentState, selVars, encoderPos, encVars, button,
                   timeVars, snapVars, lcd, oled, sinkVars, undrained,
                   validSeen, quiet, pressCount, dwellPress, moodMessagesLen>>

\* Lines 487-488: clear encoderPos and unmask the interrupts.  The value
\* read counts as drained from here on.
DrainClear ==
    /\ pc = "clear"
    /\ encoderPos' = 0
    /\ interruptsOn' = TRUE
    /\ undrained' = undrained - pos
    /\ pc' = "rotate"
    /\ UNCHANGED <<currentState, selVars, pos, encVars, button, timeVars,
                   snapVars, lcd, oled, sinkVars, validSeen, quiet,
                   pressCount, dwellPress, tickChanged, oledDraws,
                   moodMessagesLen>>

\* The rotation switch with the class case writing the name index.
RotateWrongIndex ==
    /\ pc = "rotate"
    /\ selectedNameIndex' =
          IF pos # 0 /\ currentState = STATE_NAME_SELECTION
          THEN WrapIndex(selectedNameIndex, pos, numNames)
          ELSE IF pos # 0 /\ currentState = STATE_CLASS_SELECTION
          THEN WrapIndex(selectedNameIndex, pos, numClasses)
          ELSE selectedNameIndex
    /\ selectedClassIndex' = selectedClassIndex
    /\ selectedMoodIndex' =
          IF pos # 0 /\ currentState = STATE_MOOD_SELECTION
          THEN WrapIndex(selectedMoodIndex, pos, numMoods)
          ELSE selectedMoodIndex
    /\ pos' = 0
    /\ tickChanged' = (selVars' # selVars)
    /\ pc' = "button"
    /\ UNCHANGED <<currentState, encoderPos, encVars, interruptsOn, button,
                   timeVars, snapVars, lcd, oled, sinkVars, undrained,
                   validSeen, quiet, pressCount, dwellPress, oledDraws,
                   moodMessagesLen>>

\* Lines 490-504: apply the drained delta to the index of the current state.
\* pos is not read after this step and is put back to 0.
Rotate ==
    /\ pc = "rotate"
    /\ selectedNameIndex' =
          IF pos # 0 /\ currentState = STATE_NAME_SELECTION
          THEN WrapIndex(selectedNameIndex, pos, numNames)
          ELSE selectedNameIndex
    /\ selectedClassIndex' =
          IF pos # 0 /\ currentState = STATE_CLASS_SELECTION
          THEN WrapIndex(selectedClassIndex, pos, numClasses)
          ELSE selectedClassIndex
    /\ selectedMoodIndex' =
          IF pos # 0 /\ currentState = STATE_MOOD_SELECTION
          THEN WrapIndex(selectedMoodIndex, pos, numMoods)
          ELSE selectedMoodIndex
    /\ pos' = 0
    /\ tickChanged' = (selVars' # selVars)
    /\ pc' = "button"
    /\ UNCHANGED <<currentState, encoderPos, encVars, interruptsOn, button,
                   timeVars, snapVars, lcd, oled, sinkVars, undrained,
                   validSeen, quiet, pressCount, dwellPress, oledDraws,
                   moodMessagesLen>>

\* isButtonPressed(), lines 281-290: the return value and the timestamp.
Poll ==
    /\ pressed' = IsButtonPressed(button, now, lastButtonPressTime)
    /\ lastButtonPressTime' =
          IF pressed' THEN now ELSE lastButtonPressTime
    /\ pressCount' = IF pressed' THEN pressCount + 1 ELSE pressCount

\* Lines 506-521 up to the call of delay(200).
Button ==
    /\ pc = "button"
    /\ Poll
    /\ currentState' =
          IF pressed' THEN NextStateOnPress(currentState) ELSE currentState
    /\ delayStart' = IF pressed' THEN now ELSE delayStart
    /\ pc' = IF pressed' THEN "delay" ELSE "render"
    /\ quiet' = FALSE
    /\ tickChanged' = (tickChanged \/ currentState' # currentState)
    /\ UNCHANGED <<selVars, encoderPos, pos, encVars, interruptsOn, button,
                   now, confirmStart, snapVars, lcd, oled, sinkVars,
                   undrained, validSeen, dwellPress, oledDraws,
                   moodMessagesLen>>

\* Line 520: delay(200) returns.
Delay ==
    /\ pc = "delay"
    /\ DelayDone(now, delayStart)
    /\ pressed' = FALSE
    /\ pc' = "render"
    /\ UNCHANGED <<currentState, selVars, encoderPos, pos, encVars,
                   interruptsOn, button, now, lastButtonPressTime,
                   delayStart, confirmStart, snapVars, lcd, oled, sinkVars,
                   undrained, validSeen, quiet, pressCount, dwellPress,
                   tickChanged, oledDraws, moodMessagesLen>>

\* The device faults while it builds the message, lines 538-541: nothing
\* has been written yet, and nothing runs any more.
Fault ==
    /\ pc' = "fault"
    /\ UNCHANGED <<currentState, selVars, encoderPos, pos, encVars,
                   interruptsOn, button, timeVars, snapVars, lcd, oled,
                   sinkVars, undrained, validSeen, quiet, pressCount,
                   dwellPress, tickChanged, oledDraws, moodMessagesLen>>

\* The device faults in displayMenu() at the read of the label, lines 316,
\* 322, 328: the LCD has been cleared and the header printed, the snapshot
\* of lines 528-531 is not taken.
FaultInMenu ==
    /\ lcd' = MenuHeader(currentState)
    /\ pc' = "fault"
    /\ UNCHANGED <<currentState, selVars, encoderPos, pos, encVars,
                   interruptsOn, button, timeVars, snapVars, oled,
                   sinkVars, undrained, validSeen, quiet, pressCount,
                   dwellPress, tickChanged, oledDraws, moodMessagesLen>>

\* The device faults in updateOLED() at the read of the mood message, line
\* 360: updateOLED() has been called and has cleared the frame buffer, the
\* panel keeps what it shows.
FaultInOLED ==
    /\ oledDraws' = oledDraws + 1
    /\ pc' = "fault"
    /\ UNCHANGED <<currentState, selVars, encoderPos, pos, encVars,
                   interruptsOn, button, timeVars, snapVars, lcd, oled,
                   sinkVars, undrained, validSeen, quiet, pressCount,
                   dwellPress, tickChanged, moodMessagesLen>>

\* Lines 523-534: redraw the LCD when the state or its index changed, and
\* update the OLED.
Render ==
    /\ pc = "render"
    /\ LET redraw == NeedsRedraw(currentState, selectedNameIndex,
                                 selectedClassIndex, selectedMoodIndex,
                                 prevState, prevNameIndex, prevClassIndex,
                                 prevMoodIndex)
           reads == IF redraw
                    THEN DisplayMenuOutcomes(currentState, selectedNameIndex,
                             selectedClassIndex, selectedMoodIndex)
                    ELSE {"read"}
       IN \E o \in reads :
            IF o = "fault" THEN FaultInMenu
            ELSE /\ lcd' = IF redraw
                           THEN DisplayMenu(currentState, selectedNameIndex,
                                    selectedClassIndex, selectedMoodIndex)
                           ELSE lcd
                 /\ prevState' = IF redraw THEN currentState ELSE prevState
                 /\ prevNameIndex' =
                       IF redraw THEN selectedNameIndex ELSE prevNameIndex
                 /\ prevClassIndex' =
                       IF redraw THEN selectedClassIndex ELSE prevClassIndex
                 /\ prevMoodIndex' =
                       IF redraw THEN selectedMoodIndex ELSE prevMoodIndex
                 /\ oled' = UpdateOLED(currentState, selectedMoodIndex)
                 /\ oledDraws' = oledDraws + 1
                 /\ dwellPress' = "none"
                 /\ pc' = IF currentState = STATE_SUBMISSION
                          THEN "send" ELSE "top"
                 /\ UNCHANGED <<currentState, selVars, encoderPos, pos,
                                encVars, interruptsOn, button, timeVars,
                                sinkVars, undrained, validSeen, quiet,
                                pressCount, tickChanged, moodMessagesLen>>

\* Lines 536-542 and 234-238: build the message and call
\* sendTelegramMessage(), which connects, once; loop() is then inside the
\* call, at "sending", where the interrupts are served and millis() runs.
Send ==
    /\ pc = "send"
    /\ \E r \in BuildMessageOutcomes(selectedNameIndex, selectedClassIndex,
                                      selectedMoodIndex) :
         IF r = "fault" THEN Fault
         ELSE /\ message' = BuildMessage(selectedNameIndex,
                                 selectedClassIndex, selectedMoodIndex)
              /\ sinkCalls' = sinkCalls + 1
              /\ sinkOutcome' = "no_return"
              /\ pc' = "sending"
              /\ UNCHANGED <<currentState, selVars, encoderPos, pos,
                             encVars, interruptsOn, button, timeVars,
                             snapVars, lcd, oled, undrained, validSeen,
                             quiet, pressCount, dwellPress, tickChanged,
                             oledDraws, moodMessagesLen>>

\* Lines 238-261: sendTelegramMessage() returns, with the connection
\* refused or the reply read, and loop() goes on at line 544.  The step is
\* the peer's as much as the program's: nothing in the code brings it about
\* when the peer neither answers nor closes.
SendReturn ==
    /\ pc = "sending"
    /\ \E o \in SinkReturns :
         /\ sinkOutcome' = o
         /\ pc' = "confirm"
    /\ UNCHANGED <<currentState, selVars, encoderPos, pos, encVars,
                   interruptsOn, button, timeVars, snapVars, lcd, oled,
                   message, sinkCalls, undrained, validSeen, quiet,
                   pressCount, dwellPress, tickChanged, oledDraws,
                   moodMessagesLen>>

\* Lines 544-548: enter the confirmation state, draw it, start the dwell.
Confirm ==
    /\ pc = "confirm"
    /\ currentState' = STATE_CONFIRMATION
    /\ lcd' = DisplayMenu(STATE_CONFIRMATION, selectedNameIndex,
                  selectedClassIndex, selectedMoodIndex)
    /\ confirmStart' = now
    /\ pc' = "dwell"
    /\ UNCHANGED <<selVars, encoderPos, pos, encVars, interruptsOn, button,
                   now, lastButtonPressTime, pressed, delayStart, snapVars,
                   oled, sinkVars, undrained, validSeen, quiet, pressCount,
                   dwellPress, tickChanged, oledDraws, moodMessagesLen>>

\* Lines 549-559: one evaluation of the dwell loop's condition; the body
\* updates the OLED, the exit resets the selection.  The loop calls
\* updateOLED() in every pass; MaxDraws passes are followed.
Dwell ==
    /\ pc = "dwell"
    /\ IF ~DwellDone(now, confirmStart)
       THEN /\ oledDraws < MaxDraws
            /\ \E o \in UpdateOLEDOutcomes(currentState, selectedMoodIndex) :
              IF o = "fault" THEN FaultInOLED
              ELSE /\ oled' = UpdateOLED(currentState, selectedMoodIndex)
                   /\ oledDraws' = oledDraws + 1
                   /\ UNCHANGED <<pc, currentState, selVars, encoderPos, pos,
                                  encVars, interruptsOn, button, timeVars,
                                  snapVars, lcd, sinkVars, undrained,
                                  validSeen, quiet, pressCount, dwellPress,
                                  tickChanged, moodMessagesLen>>
       ELSE /\ selectedNameIndex' = 0
            /\ selectedClassIndex' = 0
            /\ selectedMoodIndex' = 0
            /\ currentState' = STATE_NAME_SELECTION
            /\ prevState' = STATE_NONE
            /\ confirmStart' = 0
            /\ message' = <<>>
            /\ sinkCalls' = 0
            /\ sinkOutcome' = "none"
            /\ pressCount' = 0
            /\ quiet' = TRUE
            /\ dwellPress' = IF dwellPress = "done" THEN "done" ELSE "none"
            /\ pc' = "top"
            /\ UNCHANGED <<encoderPos, pos, encVars, interruptsOn, button,
                           now, lastButtonPressTime, pressed, delayStart,
                           prevNameIndex, prevClassIndex, prevMoodIndex, lcd,
                           oled, undrained, validSeen, tickChanged, oledDraws,
                           moodMessagesLen>>

\* One step of loop().
LoopStep ==
    \/ DrainRead
    \/ DrainClear
    \/ Rotate
    \/ Button
    \/ Delay
    \/ Render
    \/ Send
    \/ Confirm
    \/ Dwell

\* A call of isButtonPressed() on its own.
PollOnly ==
    /\ Poll
    /\ UNCHANGED <<pc, currentState, selVars, encoderPos, pos, encVars,
                   interruptsOn, button, now, delayStart, confirmStart,
                   snapVars, lcd, oled, sinkVars, undrained, validSeen,
                   quiet, dwellPress, tickChanged, oledDraws, moodMessagesLen>>

----------------------------------------------------------------------------
\* Specifications.

\* The whole program: the knob, the button and loop(), with the tick counter
\* followed in dwell periods.
Next ==
    \/ LoopStep
    \/ SendReturn
    \/ PendingInterrupt
    \/ \E s \in 0..3 : SignalEdge(s)
    \/ ButtonChange
    \/ TickCoarse

Spec == Init /\ [][Next]_vars

\* The program with the knob at rest and the tick counter followed to the
\* millisecond around the debounce window and the dwell.  loop() runs for
\* ever and millis() advances, hence the fairness.
NextTimed ==
    \/ LoopStep
    \/ SendReturn
    \/ ButtonChange
    \/ TickFine

TimedSpec ==
    RestInit /\ [][NextTimed]_vars /\ WF_vars(LoopStep) /\ WF_vars(TickFine)

\* The button reader alone, polled at any instant.
NextReader ==
    \/ PollOnly
    \/ ButtonChange
    \/ TickFine

ReaderSpec == RestInit /\ [][NextReader]_vars

\* The program from power-on, for each length of the moodMessages
\* initializer: the knob is turned while setup() runs and is at rest in
\* loop(), the button is pressed and released at any time.
NextConfig ==
    \/ Setup
    \/ (pc \in SetupPcs /\ \E s \in 0..3 : SignalEdge(s))
    \/ LoopStep
    \/ SendReturn
    \/ ButtonChange
    \/ TickCoarse

ConfigSpec == ConfigInit /\ [][NextConfig]_vars

\* The button goes down.
ButtonPress ==
    /\ button = HIGH
    /\ ButtonChange

\* The program with the knob at rest and a button that, once down, is held
\* for good.
NextHold ==
    \/ LoopStep
    \/ SendReturn
    \/ ButtonPress
    \/ TickFine

HoldSpec ==
    RestInit /\ [][NextHold]_vars /\ WF_vars(LoopStep) /\ WF_vars(TickFine)

----------------------------------------------------------------------------
\* Properties.

\* A step in which updateEncoder() runs.
IsrStep ==
    \/ pins' # pins /\ InterruptsServed
    \/ irq /\ ~irq'

\* C1: after any sequence of loop iterations and for any drained delta, each
\* of the three selection indices is within its option list.
C1_IndicesInRange ==
    /\ InRange(selectedNameIndex, numNames)
    /\ InRange(selectedClassIndex, numClasses)
    /\ InRange(selectedMoodIndex, numMoods)

\* C2: transitions decoded during the submission and the dwell are discarded:
\* with nothing decoded after the reset, the name index is still 0 once the
\* first iteration back in the name selection has applied its delta.
C2_DwellRotationDiscarded ==
    (quiet /\ pc = "button") => selectedNameIndex = 0

\* C3: no decoded step is lost or counted twice: the steps decoded so far
\* minus the values drained so far is what encoderPos holds, at every point
\* of the main loop; with no valid transition decoded, nothing is drained.
C3_NoStepLost ==
    /\ undrained = encoderPos
    /\ ~validSeen => (encoderPos = 0 /\ pos = 0)

\* An interrupt is pending in the masked read-and-clear that drains a
\* non-zero value.
C3_Witness == pc = "clear" /\ irq /\ pos # 0 /\ validSeen

\* The rotation cycle 00 -> 10 -> 11 -> 01 -> 00 as (previous, new) samples.
ForwardPairs == {<<0, 2>>, <<2, 3>>, <<3, 1>>, <<1, 0>>}

\* The number of bits in which two 2-bit samples differ.
BitsChanged(p, q) ==
    (IF p \div 2 # q \div 2 THEN 1 ELSE 0) + (IF p % 2 # q % 2 THEN 1 ELSE 0)

\* What the claim says a transition from sample p to sample q counts.
GrayStep(p, q) ==
    IF <<p, q>> \in ForwardPairs THEN 1
    ELSE IF <<q, p>> \in ForwardPairs THEN -1
    ELSE 0

\* C4: every run of the handler changes encoderPos by +1 on the four codes
\* of the cycle 00->10->11->01->00, by -1 on the four codes of the reverse
\* cycle and by 0 on the eight codes in which no bit or both bits changed;
\* the codes that count are those in which exactly one bit changed.  The
\* table so gives 0 for a transition followed by its reverse and +4 or -4
\* for a full cycle.
C4_GrayCodeTable ==
    /\ \A p, q \in 0..3 :
          EncoderStep(TransitionCode(p, q))
            + EncoderStep(TransitionCode(q, p)) = 0
    /\ EncoderStep(TransitionCode(0, 2)) + EncoderStep(TransitionCode(2, 3))
          + EncoderStep(TransitionCode(3, 1))
          + EncoderStep(TransitionCode(1, 0)) = 4
    /\ EncoderStep(TransitionCode(0, 1)) + EncoderStep(TransitionCode(1, 3))
          + EncoderStep(TransitionCode(3, 2))
          + EncoderStep(TransitionCode(2, 0)) = -4
    /\ [][IsrStep =>
            /\ encoderPos' - encoderPos = GrayStep(lastEncoded, lastEncoded')
            /\ (encoderPos' # encoderPos) =
                  (BitsChanged(lastEncoded, lastEncoded') = 1)]_vars

\* The handler has counted forward and backward steps and has seen a code
\* with both bits changed: two backward steps remain counted.
C4_Witness == validSeen /\ encoderPos = -2 /\ lastEncoded = 0 /\ pins = 0

\* C5: two presses the reader accepts are at least 200 ms of the tick counter
\* apart, and a poll that sees the level pressed less than 200 ms after the
\* last accepted press returns false and changes no state.
C5_AcceptedPressesApart ==
    [][/\ lastButtonPressTime' # lastButtonPressTime =>
             /\ lastButtonPressTime' = now
             /\ now - lastButtonPressTime >= 200
       /\ pressCount' # pressCount =>
             lastButtonPressTime' # lastButtonPressTime
       /\ (PollOnly /\ button = LOW /\ now - lastButtonPressTime < 200) =>
             /\ ~pressed'
             /\ UNCHANGED <<lastButtonPressTime, pressCount, currentState>>
      ]_vars

\* A second press has just been accepted.
C5_Witness == pressed /\ pressCount = 2 /\ lastButtonPressTime = now

\* C6: a poll returns true exactly when the level is pressed and at least
\* 200 ms have passed since the last accepted press; an acceptance sets the
\* timestamp to now and a rejection leaves it.
C6_PollAtLeastWindow ==
    [][PollOnly =>
        /\ pressed' = (button = LOW /\ now - lastButtonPressTime >= 200)
        /\ lastButtonPressTime' =
              IF pressed' THEN now ELSE lastButtonPressTime]_vars

\* The edges of the phase cycle.
PhaseCycle ==
    {<<STATE_NAME_SELECTION, STATE_CLASS_SELECTION>>,
     <<STATE_CLASS_SELECTION, STATE_MOOD_SELECTION>>,
     <<STATE_MOOD_SELECTION, STATE_SUBMISSION>>,
     <<STATE_SUBMISSION, STATE_CONFIRMATION>>,
     <<STATE_CONFIRMATION, STATE_NAME_SELECTION>>}

\* The number of accepted presses that lead from the name selection to a
\* state.
PressesTo(st) ==
    CASE st = STATE_NAME_SELECTION -> 0
      [] st = STATE_CLASS_SELECTION -> 1
      [] st = STATE_MOOD_SELECTION -> 2
      [] OTHER -> 3

\* C7: the phase changes only along the cycle name -> class -> mood ->
\* submission -> confirmation -> name; an accepted press in a selecting phase
\* advances it by exactly one step, so that three accepted presses lead from
\* the name selection to the submission; and every loop iteration starts in
\* one of the three selecting phases.
C7_PhaseCycle ==
    [][/\ currentState' # currentState =>
             <<currentState, currentState'>> \in PhaseCycle
       /\ pressCount' = pressCount + 1 =>
             /\ currentState \in SelectingStates
             /\ <<currentState, currentState'>> \in PhaseCycle
       /\ pressCount' = PressesTo(currentState')
       /\ pc' = "top" => currentState' \in SelectingStates]_vars

\* A whole cycle is done: the reset has put the phase back to the name
\* selection at the start of a loop iteration.
C7_Witness == pc = "top" /\ quiet /\ currentState = STATE_NAME_SELECTION

\* C8: the phase leaves the confirmation only for the name selection, only
\* when at least 3000 ms have passed since the confirmation was entered,
\* and with the three indices at 0.
C8_DwellThenReset ==
    [][(currentState = STATE_CONFIRMATION
          /\ currentState' # STATE_CONFIRMATION) =>
        /\ currentState' = STATE_NAME_SELECTION
        /\ now - confirmStart >= 3000
        /\ selectedNameIndex' = 0
        /\ selectedClassIndex' = 0
        /\ selectedMoodIndex' = 0]_vars

\* The reset has put indices that were not 0 back to 0.
C8_Witness ==
    /\ quiet
    /\ currentState = STATE_NAME_SELECTION
    /\ prevNameIndex = 1 /\ prevClassIndex = 2 /\ prevMoodIndex = 3
    /\ selectedNameIndex = 0 /\ selectedClassIndex = 0
    /\ selectedMoodIndex = 0

\* C9: a press made and released during the submission and the dwell
\* changes nothing: in these steps the phase changes only from submission to
\* confirmation and, with the dwell over, to the name selection; the
\* indices change only by the reset; the debounce timestamp and the start
\* of the dwell stay; the dwell loop goes on while less than 3000 ms have
\* passed and ends when they have, whatever the button does;
\* and after the reset the polls that find the button released advance
\* nothing.
C9_DwellPressIgnored ==
    [][/\ pc \in {"send", "sending", "confirm", "dwell"} =>
             /\ lastButtonPressTime' = lastButtonPressTime
             /\ ~pressed'
             /\ currentState' # currentState =>
                   \/ pc = "confirm" /\ currentState' = STATE_CONFIRMATION
                   \/ pc = "dwell" /\ now - confirmStart >= 3000
             /\ selVars' # selVars => currentState' = STATE_NAME_SELECTION
       /\ (pc = "dwell" /\ pc' = "dwell") => confirmStart' = confirmStart
       /\ Dwell =>
             /\ pc' = "dwell" => now - confirmStart < 3000
             /\ pc' = "top" => now - confirmStart >= 3000
       /\ (dwellPress = "done" /\ pc = "button" /\ pc' # "button"
             /\ button = HIGH) =>
             /\ pc' = "render"
             /\ currentState' = currentState
             /\ UNCHANGED selVars]_vars

\* A press was made and released during the dwell, and the first loop
\* iteration after the reset has polled the button.
C9_Witness ==
    /\ dwellPress = "done"
    /\ pc = "render"
    /\ currentState = STATE_NAME_SELECTION
    /\ button = HIGH

\* C10: whatever the outcome of the sink, a submission calls it once, then
\* enters the confirmation, and after the dwell is back in the name
\* selection with the indices at 0; once the call has returned the phase is
\* the submission about to become the confirmation, or the confirmation.
C10_FireAndForget ==
    /\ [](sinkCalls =
            IF pc \in {"sending", "confirm", "dwell"} THEN 1 ELSE 0)
    /\ [](sinkOutcome \in SinkReturns =>
            \/ pc = "confirm" /\ currentState = STATE_SUBMISSION
            \/ pc = "dwell" /\ currentState = STATE_CONFIRMATION)
    /\ (sinkCalls = 1) ~> (pc = "dwell" /\ currentState = STATE_CONFIRMATION)
    /\ (pc = "dwell" /\ confirmStart + DwellMs <= MaxFineNow) ~>
          (/\ pc = "top"
           /\ currentState = STATE_NAME_SELECTION
           /\ selectedNameIndex = 0
           /\ selectedClassIndex = 0
           /\ selectedMoodIndex = 0
           /\ sinkCalls = 0)

\* C10, from the return of the sink on: the sink has been called once, the
\* confirmation follows for each outcome it returns with, and after the
\* dwell the phase is the name selection with the indices at 0.
C10_ReturningSink ==
    /\ [](sinkCalls =
            IF pc \in {"sending", "confirm", "dwell"} THEN 1 ELSE 0)
    /\ [](sinkOutcome \in SinkReturns =>
            \/ pc = "confirm" /\ currentState = STATE_SUBMISSION
            \/ pc = "dwell" /\ currentState = STATE_CONFIRMATION)
    /\ \A o \in SinkReturns :
         /\ (sinkCalls = 1 /\ sinkOutcome = o) ~>
               (pc = "dwell" /\ currentState = STATE_CONFIRMATION)
         /\ (pc = "dwell" /\ sinkOutcome = o
               /\ confirmStart + DwellMs <= MaxFineNow) ~>
               (/\ pc = "top"
                /\ currentState = STATE_NAME_SELECTION
                /\ selectedNameIndex = 0
                /\ selectedClassIndex = 0
                /\ selectedMoodIndex = 0
                /\ sinkCalls = 0)

\* C11: a submission hands the sink, once, one message of the four fields
\* Name, Class, Mood, Date in this order, whose labels are the entries of
\* the three lists at the indices the selection has when the phase becomes
\* the submission: the indices stay from there until the message is built.
\* With no valid transition decoded since start-up the message carries the
\* first entry of each list.
C11_MessageFields ==
    [][/\ (currentState = STATE_SUBMISSION \/ currentState' = STATE_SUBMISSION)
             => UNCHANGED selVars
       /\ (message' # message /\ message' # <<>>) =>
             /\ pc = "send" /\ pc' = "sending"
             /\ currentState = STATE_SUBMISSION
             /\ sinkCalls' = sinkCalls + 1
             /\ Len(message') = 4
             /\ message'[1][1] = "Name"
             /\ message'[2][1] = "Class"
             /\ message'[3][1] = "Mood"
             /\ message'[4][1] = "Date"
             /\ InRange(selectedNameIndex, numNames) =>
                   message'[1][2] = names[selectedNameIndex + 1]
             /\ InRange(selectedClassIndex, numClasses) =>
                   message'[2][2] = classes[selectedClassIndex + 1]
             /\ InRange(selectedMoodIndex, numMoods) =>
                   message'[3][2] = moods[selectedMoodIndex + 1]
             /\ ~validSeen =>
                   /\ message'[1][2] = "Tan Jetyu"
                   /\ message'[2][2] = "Class 3"
                   /\ message'[3][2] = "Happy"
       /\ (pc = "send" /\ pc' = "sending") => message' # <<>>
       /\ pc = "sending" => message' = message]_vars

\* A message with a rotated entry of each list has been handed to the sink.
C11_Witness ==
    /\ pc = "confirm"
    /\ sinkCalls = 1
    /\ message = <<<<"Name", "Nur Qalisha">>, <<"Class", "Class 5">>,
                   <<"Mood", "Angry">>, <<"Date", "dd/mm/yyyy">>>>

\* C12: in a loop iteration that leaves the phase and the index of that
\* phase as they were at the end of the iteration before (or of setup(), or
\* of the reset after a submission), displayMenu() is not called: the LCD
\* and the render snapshot stay as they are.
C12_NoRedundantRedraw ==
    [][(pc = "render" /\ pc' # "render" /\ ~tickChanged) =>
          UNCHANGED <<lcd, snapVars>>]_vars

\* C13: the OLED is redrawn in every loop iteration of the name and the
\* class selection, but in the mood selection and in the confirmation it
\* is redrawn only when the phase or the mood index is not what it last
\* rendered: in an iteration of the mood selection that leaves phase and
\* index as the iteration before rendered them, and in the dwell once the
\* confirmation message is on the OLED, updateOLED() is not called.
C13_OledChangeOnly ==
    [][/\ (pc = "render" /\ pc' = "top"
             /\ currentState \in {STATE_NAME_SELECTION, STATE_CLASS_SELECTION})
             => oledDraws' = oledDraws + 1
       /\ (pc = "render" /\ pc' # "render"
             /\ currentState = STATE_MOOD_SELECTION
             /\ ~tickChanged /\ oled[1] = "emotion")
             => oledDraws' = oledDraws
       /\ (pc = "dwell" /\ currentState = STATE_CONFIRMATION
             /\ oled[1] = "message")
             => oledDraws' = oledDraws]_vars

\* C14: a build in which moodMessages and moods differ in length does not
\* get past start-up: loop() is never entered, and no mood message is read
\* for the OLED.
C14_ListLengthChecked ==
    moodMessagesLen # numMoods =>
        /\ pc \in SetupPcs \cup {"halted"}
        /\ oled[1] # "message"

\* The list length and the index that belong to a selecting state.
ListLength(st) ==
    CASE st = STATE_NAME_SELECTION -> numNames
      [] st = STATE_CLASS_SELECTION -> numClasses
      [] OTHER -> numMoods

ActiveIndex(st, ni, ci, mi) ==
    CASE st = STATE_NAME_SELECTION -> ni
      [] st = STATE_CLASS_SELECTION -> ci
      [] OTHER -> mi

\* C15: in a selecting phase the iteration that has drained the delta pos
\* sets the index of the phase to a value congruent to the old index plus
\* pos modulo the list length: +1 at the last index gives 0 and -1 at index
\* 0 gives the last index.  For a list of two entries the update takes 0 to
\* 1 and 1 back to 0 on two successive deltas of +1.
C15_WrapAround ==
    /\ WrapIndex(0, 1, 2) = 1
    /\ WrapIndex(WrapIndex(0, 1, 2), 1, 2) = 0
    /\ [][(pc = "rotate" /\ pc' = "button"
             /\ currentState \in SelectingStates) =>
            LET n == ListLength(currentState)
                old == ActiveIndex(currentState, selectedNameIndex,
                           selectedClassIndex, selectedMoodIndex)
                new == ActiveIndex(currentState, selectedNameIndex',
                           selectedClassIndex', selectedMoodIndex')
            IN /\ (new - (old + pos)) % n = 0
               /\ (pos = 1 /\ old = n - 1) => new = 0
               /\ (pos = -1 /\ old = 0) => new = n - 1]_vars

\* The drain has read a delta of +1 with the mood index at the last entry
\* of its list.
C15_Witness ==
    /\ pc = "rotate"
    /\ pos = 1
    /\ currentState = STATE_MOOD_SELECTION
    /\ selectedMoodIndex = numMoods - 1

\* C16: with the button held down, every poll of loop() made more than the
\* debounce interval after the last acceptance accepts a press again and, in
\* a selecting phase, advances the phase.  A hold that starts in the name
\* selection so leads through the class and the mood selection to a
\* submission, and a hold that lasts through the dwell advances the phase
\* again after the reset.  (The conditions on the tick counter keep the
\* waits within the instants the clock of the model reaches.)
C16_HeldButtonRefires ==
    /\ [][(pc = "button" /\ pc' # "button" /\ button = LOW
             /\ now - lastButtonPressTime > DebounceMs) =>
            /\ pressed'
            /\ lastButtonPressTime' = now
            /\ pressCount' = pressCount + 1
            /\ currentState \in SelectingStates =>
                  <<currentState, currentState'>> \in PhaseCycle]_vars
    /\ (button = LOW /\ currentState = STATE_NAME_SELECTION)
          ~> (currentState = STATE_CLASS_SELECTION)
    /\ (button = LOW /\ currentState = STATE_CLASS_SELECTION
          /\ lastButtonPressTime + 2 * DebounceMs <= MaxFineNow)
          ~> (currentState = STATE_MOOD_SELECTION)
    /\ (button = LOW /\ currentState = STATE_MOOD_SELECTION
          /\ lastButtonPressTime + 2 * DebounceMs <= MaxFineNow)
          ~> (currentState = STATE_SUBMISSION)
    /\ (currentState = STATE_SUBMISSION /\ pc = "delay"
          /\ delayStart + DelayMs <= MaxFineNow)
          ~> (sinkCalls = 1 /\ message # <<>>)
    /\ (button = LOW /\ pc = "dwell"
          /\ confirmStart + DwellMs <= MaxFineNow)
          ~> (currentState = STATE_CLASS_SELECTION /\ pressCount = 1)

\* The button has been down since the name selection, through the
\* submission and the dwell, and the first poll after the reset has accepted
\* a press: the OLED still shows the confirmation message.
C16_Witness ==
    /\ button = LOW
    /\ pc = "delay"
    /\ currentState = STATE_CLASS_SELECTION
    /\ pressCount = 1
    /\ oled[1] = "message"

\* C17: the step that applies a drained delta changes no index but that of
\* the phase in which the iteration began and leaves the phase; an index
\* changes only in that step of its own phase or in the reset after the
\* dwell, so an index chosen in an earlier phase stays until the reset; and
\* a run of the interrupt handler writes no index and not the phase.
C17_RotationFrame ==
    [][/\ (pc = "rotate" /\ pc' = "button") =>
             /\ currentState' = currentState
             /\ currentState # STATE_NAME_SELECTION =>
                   selectedNameIndex' = selectedNameIndex
             /\ currentState # STATE_CLASS_SELECTION =>
                   selectedClassIndex' = selectedClassIndex
             /\ currentState # STATE_MOOD_SELECTION =>
                   selectedMoodIndex' = selectedMoodIndex
       /\ selectedNameIndex' # selectedNameIndex =>
             \/ pc = "rotate" /\ currentState = STATE_NAME_SELECTION
             \/ pc = "dwell" /\ pc' = "top"
       /\ selectedClassIndex' # selectedClassIndex =>
             \/ pc = "rotate" /\ currentState = STATE_CLASS_SELECTION
             \/ pc = "dwell" /\ pc' = "top"
       /\ selectedMoodIndex' # selectedMoodIndex =>
             \/ pc = "rotate" /\ currentState = STATE_MOOD_SELECTION
             \/ pc = "dwell" /\ pc' = "top"
       /\ IsrStep => UNCHANGED <<selVars, currentState, pc>>]_vars

\* In the class selection a delta has just changed the class index, with
\* the name chosen before still in place.
C17_Witness ==
    /\ pc = "button"
    /\ tickChanged
    /\ currentState = STATE_CLASS_SELECTION
    /\ selectedNameIndex = 2
    /\ prevNameIndex = 2
    /\ selectedClassIndex = 1
    /\ prevClassIndex = 0

\* C18: what is submitted is what was shown.  A label is drawn on the LCD only
\* in the phase of its category, and the index of a category stays from the
\* press that ends its phase up to the message (C17), so the label last
\* drawn for a category is the label in the message exactly when, at each
\* accepted press that ends a selecting phase, the LCD shows the menu of
\* that phase with the label at its index, also when the same iteration has
\* applied a rotation before the press.  The message then carries the
\* labels at the three indices.
C18_SubmittedIsShown ==
    [][/\ (pc = "button" /\ pressed'
             /\ currentState = STATE_NAME_SELECTION) =>
             lcd = <<"Select Name:",
                     LabelAt(names, selectedNameIndex, numNames)>>
       /\ (pc = "button" /\ pressed'
             /\ currentState = STATE_CLASS_SELECTION) =>
             lcd = <<"Select Class:",
                     LabelAt(classes, selectedClassIndex, numClasses)>>
       /\ (pc = "button" /\ pressed'
             /\ currentState = STATE_MOOD_SELECTION) =>
             lcd = <<"Select Mood:",
                     LabelAt(moods, selectedMoodIndex, numMoods)>>
       /\ (pc = "send" /\ pc' = "sending") =>
             /\ message'[1][2] = LabelAt(names, selectedNameIndex, numNames)
             /\ message'[2][2] =
                   LabelAt(classes, selectedClassIndex, numClasses)
             /\ message'[3][2] = LabelAt(moods, selectedMoodIndex, numMoods)
      ]_vars

\* The LCD and the render snapshot agree with the phase and the indices.
LcdCurrent ==
    /\ prevState = currentState
    /\ prevNameIndex = selectedNameIndex
    /\ prevClassIndex = selectedClassIndex
    /\ prevMoodIndex = selectedMoodIndex
    /\ lcd = DisplayMenu(currentState, selectedNameIndex, selectedClassIndex,
                  selectedMoodIndex)

\* The screen displayMenu() draws in STATE_CONFIRMATION, lines 330-336.
ConfirmationScreen == <<"Submitted!", "Thank you!">>

\* C19: at the end of every loop iteration without a submission the LCD
\* shows the menu of the current phase with the label at its index and the
\* snapshot equals the phase and the three indices; a submission iteration
\* ends with the snapshot invalid, and the iteration after it draws the
\* name selection menu over the confirmation screen.
C19_DisplayFollows ==
    [][/\ (pc = "render" /\ pc' = "top") => LcdCurrent'
       /\ (pc = "dwell" /\ pc' = "top") => prevState' \notin DeviceState
       /\ (pc = "render" /\ pc' = "top" /\ lcd = ConfirmationScreen) =>
             lcd'[1] = "Select Name:"]_vars

\* C19 as amended: the iteration after a submission iteration draws over
\* the confirmation screen the menu of the phase it ends in, which is the
\* name selection menu unless that iteration has accepted a press.
C19_DisplayFollowsPhase ==
    [][/\ (pc = "render" /\ pc' = "top") => LcdCurrent'
       /\ (pc = "dwell" /\ pc' = "top") => prevState' \notin DeviceState
       /\ (pc = "render" /\ pc' = "top" /\ lcd = ConfirmationScreen) =>
             /\ prevState = STATE_NONE
             /\ lcd' # ConfirmationScreen
             /\ lcd'[1] = IF pressCount = 0 THEN "Select Name:"
                           ELSE "Select Class:"]_vars

\* The button was held through the dwell: the iteration after the reset has
\* accepted a press and has drawn the class selection menu over the
\* confirmation screen.  (Five waits have passed: three delays after
\* presses, the dwell, and the delay after the press that follows the reset.)
C19_Witness ==
    /\ pc = "top"
    /\ now >= BootMs + 5 * DwellMs
    /\ currentState = STATE_CLASS_SELECTION
    /\ pressCount = 1
    /\ prevState = STATE_CLASS_SELECTION
    /\ lcd = <<"Select Class:", "Class 3">>

\* C20: whenever the handler runs on an edge, the stored sample lastEncoded
\* is the pair the lines had before that edge, from the first run after
\* start-up on, where it is the idle level of the pulled-up lines; the
\* handler stores the pair it reads on every run; so each single edge, the
\* first included, is counted with the sign of its direction.
C20_LastEncodedTrue ==
    [][/\ (pins' # pins /\ InterruptsServed /\ ~irq) =>
             /\ lastEncoded = pins
             /\ encoderPos' - encoderPos = GrayStep(pins, pins')
       /\ IsrStep => lastEncoded' = pins']_vars

====
